---- MODULE Spec2Model ----
(***************************************************************************)
(* A model of src/demo.py: the LoRA fine-tuning launcher train_lora, its   *)
(* identifier parsing (extract_base_model), its allow-list validation      *)
(* (validate_base_model), its configuration assembly and the sequence of   *)
(* external calls it issues.                                                *)
(*                                                                         *)
(* Python strings that the code parses (model identifiers, base-model      *)
(* names) are sequences of one-character strings, so that str.split and    *)
(* str.lower are computed and not assumed.  Strings the code only passes   *)
(* along (revisions, paths, messages) are TLA+ strings.                    *)
(***************************************************************************)
EXTENDS Integers, Sequences, FiniteSets, TLC

\* ------------------------------------------------------------------ bounds

\* Longest generated model identifier (over Alphabet), besides the named ones.
MaxLen == 4

\* ----------------------------------------------------------- Python strings

UpperChars ==
    <<"A", "B", "C", "D", "E", "F", "G", "H", "I", "J", "K", "L", "M",
      "N", "O", "P", "Q", "R", "S", "T", "U", "V", "W", "X", "Y", "Z">>

LowerChars ==
    <<"a", "b", "c", "d", "e", "f", "g", "h", "i", "j", "k", "l", "m",
      "n", "o", "p", "q", "r", "s", "t", "u", "v", "w", "x", "y", "z">>

\* str.lower() on one ASCII character.
lower_char(c) ==
    IF \E i \in 1..Len(UpperChars) : UpperChars[i] = c
    THEN LowerChars[CHOOSE i \in 1..Len(UpperChars) : UpperChars[i] = c]
    ELSE c

\* A variant of str.lower() that leaves the text as it is.
lower_identity(s) == s

\* str.lower()
lower(s) == [i \in 1..Len(s) |-> lower_char(s[i])]

\* str.split(sep) for a one-character separator: the list of the segments
\* between the occurrences of sep, never empty.
RECURSIVE split(_, _)
split(s, sep) ==
    IF \A i \in 1..Len(s) : s[i] # sep
    THEN <<s>>
    ELSE LET k == CHOOSE i \in 1..Len(s) :
                      s[i] = sep /\ \A j \in 1..(i - 1) : s[j] # sep
         IN  <<SubSeq(s, 1, k - 1)>> \o split(SubSeq(s, k + 1, Len(s)), sep)

\* ------------------------------------------------------------ module globals

\* valid_base_models as the script defines it.
VALID_BASE_MODELS ==
    << <<"l", "l", "a", "m", "a", "2">>,
       <<"l", "l", "a", "m", "a", "3">>,
       <<"q", "w", "e", "n", "1", ".", "5">>,
       <<"y", "i">>,
       <<"m", "i", "s", "t", "r", "a", "l">>,
       <<"m", "i", "x", "t", "r", "a", "l">>,
       <<"g", "e", "m", "m", "a">>,
       <<"z", "e", "p", "h", "y", "r">>,
       <<"p", "h", "i", "3">>,
       <<"q", "w", "e", "n", "2", ".", "5">> >>

Qwen25_3B_Instruct ==
    <<"Q", "w", "e", "n", "/", "Q", "w", "e", "n", "2", ".", "5", "-", "3", "B",
      "-", "I", "n", "s", "t", "r", "u", "c", "t">>

Qwen25_15B_Instruct ==
    <<"Q", "w", "e", "n", "/", "Q", "w", "e", "n", "2", ".", "5", "-", "1", ".",
      "5", "B", "-", "I", "n", "s", "t", "r", "u", "c", "t">>

Qwen25_3B ==
    <<"Q", "w", "e", "n", "/", "Q", "w", "e", "n", "2", ".", "5", "-", "3", "B">>

Qwen25_15B ==
    <<"Q", "w", "e", "n", "/", "Q", "w", "e", "n", "2", ".", "5", "-", "1", ".",
      "5", "B">>

\* The record of three format strings every registry entry holds.
Template ==
    [system_format    |-> "<s>[SYS]{content}[/SYS]",
     user_format      |-> "<s>{content}[/USER]",
     assistant_format |-> "<s>{content}[/ASSISTANT]"]

\* model2template as the script defines it (the definition of line 115
\* replaces the imported one before train_lora is called).
MODEL2TEMPLATE ==
    [k \in {Qwen25_3B_Instruct, Qwen25_15B_Instruct, Qwen25_3B, Qwen25_15B}
        |-> Template]

\* ------------------------------------------------------------------- inputs

\* The arguments of the script's own call of train_lora.
ShippedModelId == Qwen25_3B

\* lora_dropout is written in thousandths (0.1 is 100): the code only copies it.
ShippedTrainingArgs ==
    [per_device_train_batch_size |-> 2,
     gradient_accumulation_steps |-> 8,
     num_train_epochs            |-> 3,
     lora_rank                   |-> 8,
     lora_alpha                  |-> 16,
     lora_dropout                |-> 100]

ShippedContextLength == 4096

ShippedRevision == "main"

\* Further identifiers a caller may pass.
Qwen25_7B ==
    <<"Q", "w", "e", "n", "/", "Q", "w", "e", "n", "2", ".", "5", "-", "7", "B">>

OrgFooBar == <<"O", "r", "g", "/", "F", "o", "o", "-", "B", "a", "r">>

OrgNameSubX ==
    <<"o", "r", "g", "/", "n", "a", "m", "e", "/", "s", "u", "b", "-", "x">>

NoSlashId == <<"Q", "w", "e", "n", "2", ".", "5", "-", "3", "B">>

NamedIds ==
    {Qwen25_3B_Instruct, Qwen25_15B_Instruct, Qwen25_3B, Qwen25_15B,
     Qwen25_7B, OrgFooBar, OrgNameSubX, NoSlashId}

\* "Yi" lower-cases to the allow-listed "yi".
Alphabet == {"Y", "i", "/", "-"}

BoundedIds == UNION {[1..n -> Alphabet] : n \in 0..MaxLen}

ModelIds == NamedIds \cup BoundedIds

OtherTrainingArgs ==
    [per_device_train_batch_size |-> 1,
     gradient_accumulation_steps |-> 4,
     num_train_epochs            |-> 5,
     lora_rank                   |-> 32,
     lora_alpha                  |-> 64,
     lora_dropout                |-> 50]

TrainingArgs == {ShippedTrainingArgs, OtherTrainingArgs}

ContextLengths == {ShippedContextLength, 512}

Revisions == {ShippedRevision, "v1.0"}

\* The process environment: the set of the variables that are set.
Environments == {{"HF_TOKEN"}, {}}

\* What a call of an external dependency may raise.
ExternalErrors == {"OSError", "OutOfMemoryError"}

\* ------------------------------------------------------------------- errors

NoError == [type |-> "None", origin |-> "", message |-> <<>>]

\* An exception raised inside an external dependency.
external_error(type, op) == [type |-> type, origin |-> op, message |-> <<>>]

\* ---------------------------------------------------------- pure functions

\* extract_base_model with the characters' case kept.
extract_base_model_keep_case(id) ==
    LET parts == split(id, "/")
    IN  IF Len(parts) < 2
        THEN [raised |-> TRUE,
              error  |-> [type    |-> "IndexError",
                          origin  |-> "extract_base_model",
                          message |-> <<"list index out of range">>],
              value  |-> <<>>]
        ELSE [raised |-> FALSE,
              error  |-> NoError,
              value  |-> split(parts[2], "-")[1]]

\* extract_base_model taking the last '/'-segment, which always exists.
extract_base_model_last_segment(id) ==
    LET parts == split(id, "/")
    IN  [raised |-> FALSE,
         error  |-> NoError,
         value  |-> lower(split(parts[Len(parts)], "-")[1])]

\* extract_base_model(model_id): model_id.split('/')[1].split('-')[0].lower();
\* the index [1] raises IndexError when the identifier holds no '/'.
extract_base_model(id) ==
    LET parts == split(id, "/")
    IN  IF Len(parts) < 2
        THEN [raised |-> TRUE,
              error  |-> [type    |-> "IndexError",
                          origin  |-> "extract_base_model",
                          message |-> <<"list index out of range">>],
              value  |-> <<>>]
        ELSE [raised |-> FALSE,
              error  |-> NoError,
              value  |-> lower(split(parts[2], "-")[1])]

InList(x, list) == \E i \in 1..Len(list) : list[i] = x

\* validate_base_model that accepts what the allow-list does not hold.
validate_base_model_accept_all(b, allowed) == NoError

\* validate_base_model(base_model): the ValueError it raises (NoError when it
\* returns); the message is the f-string's parts.
validate_base_model(b, allowed) ==
    IF ~InList(b, allowed)
    THEN [type    |-> "ValueError",
          origin  |-> "validate_base_model",
          message |-> <<"Invalid base_model: ", b, ". Expected one of ",
                        allowed, ".">>]
    ELSE NoError

\* The assert of train_lora with the registry test dropped.
assert_registered_skip(id, registry) == NoError

\* assert model_id in model2template, f"model_id {model_id} not supported"
assert_registered(id, registry) ==
    IF id \notin DOMAIN registry
    THEN [type    |-> "AssertionError",
          origin  |-> "train_lora",
          message |-> <<"model_id ", id, " not supported">>]
    ELSE NoError

\* ------------------------------------------------------------ configuration

\* LoraConfig(...) with rank and scaling factor exchanged.
LoraConfig_swapped(args) ==
    [r              |-> args.lora_alpha,
     target_modules |-> <<"q_proj", "v_proj">>,
     lora_alpha     |-> args.lora_rank,
     lora_dropout   |-> args.lora_dropout,
     task_type      |-> "CAUSAL_LM"]

\* lora_config = LoraConfig(...)
LoraConfig(args) ==
    [r              |-> args.lora_rank,
     target_modules |-> <<"q_proj", "v_proj">>,
     lora_alpha     |-> args.lora_alpha,
     lora_dropout   |-> args.lora_dropout,
     task_type      |-> "CAUSAL_LM"]

\* bnb_config = BitsAndBytesConfig(...)
BitsAndBytesConfig ==
    [load_in_4bit           |-> TRUE,
     bnb_4bit_quant_type    |-> "nf4",
     bnb_4bit_compute_dtype |-> "torch.bfloat16"]

\* training_args = SFTConfig(...): the keyword arguments read the caller's
\* record before the name training_args is bound to the new object.
SFTConfig(args, cl) ==
    [per_device_train_batch_size |-> args.per_device_train_batch_size,
     gradient_accumulation_steps |-> args.gradient_accumulation_steps,
     warmup_steps                |-> 100,
     learning_rate               |-> "2e-4",
     bf16                        |-> TRUE,
     logging_steps               |-> 20,
     output_dir                  |-> "outputs",
     optim                       |-> "paged_adamw_8bit",
     remove_unused_columns       |-> FALSE,
     num_train_epochs            |-> args.num_train_epochs,
     max_seq_length              |-> cl]

\* The value of a configuration name that is not bound yet.
Unbound == [unbound |-> TRUE]

\* ---------------------------------------------------------------- statements

\* The statements of train_lora in program order.
Statements ==
    <<"extract_base_model", "validate_base_model", "assert",
      "LoraConfig", "BitsAndBytesConfig", "SFTConfig",
      "AutoTokenizer.from_pretrained", "os.environ",
      "AutoModelForCausalLM.from_pretrained", "SFTDataset",
      "SFTDataCollator", "SFTTrainer", "trainer.train",
      "trainer.save_model", "os.system", "print", "return">>

StmtIndex(s) == CHOOSE i \in 1..Len(Statements) : Statements[i] = s

\* The statement order with the checkpoint deletion ahead of the save.
next_stmt_rm_first(s) ==
    CASE s = "trainer.train"      -> "os.system"
      [] s = "os.system"          -> "trainer.save_model"
      [] s = "trainer.save_model" -> "print"
      [] OTHER                    -> Statements[StmtIndex(s) + 1]

\* The statement that follows s when s completes normally.
next_stmt(s) == Statements[StmtIndex(s) + 1]

\* An exception wrapped in another on its way out of train_lora.
propagate_wrapped(e) ==
    [type |-> "RuntimeError", origin |-> "train_lora", message |-> <<e.type>>]

\* train_lora holds no try/except: an exception reaches the caller as raised.
propagate(e) == e

\* The revision AutoTokenizer.from_pretrained uses: the call passes none, so
\* the library's default branch is loaded.
tokenizer_revision(rev) == "main"

\* The revision AutoModelForCausalLM.from_pretrained is given.
model_revision(rev) == rev

\* -------------------------------------------------------------------- state

VARIABLES
    valid_base_models,  \* module global: the allow-list
    model2template,     \* module global: the template registry
    environ,            \* os.environ: the names of the variables set
    caller_args,        \* the caller's LoraTrainingArguments object
    passed,             \* the arguments as they were at the call
    status,             \* "idle", "running", "returned" or "raised"
    pc,                 \* the statement train_lora is at
    model_id,           \* parameter
    context_length,     \* parameter
    training_args,      \* parameter, rebound to the SFTConfig at line 60
    revision,           \* parameter
    base_model,         \* local
    lora_config,        \* local
    bnb_config,         \* local
    tokenizer,          \* local
    token,              \* the value read from os.environ["HF_TOKEN"]
    model,              \* local
    dataset,            \* local
    data_collator,      \* the SFTDataCollator built for the trainer
    trainer,            \* local
    calls,              \* the statements executed so far, with their outcome
    error,              \* the exception that left train_lora, if any
    prev_run            \* the inputs and configurations of the previous run

globals == <<valid_base_models, model2template>>

params == <<model_id, context_length, revision>>

configs == <<training_args, lora_config, bnb_config>>

handles == <<tokenizer, token, model, dataset, data_collator, trainer>>

vars ==
    <<valid_base_models, model2template, environ, caller_args, passed, status,
      pc, model_id, context_length, training_args, revision, base_model,
      lora_config, bnb_config, tokenizer, token, model, dataset,
      data_collator, trainer, calls, error, prev_run>>

NoPassed ==
    [model_id |-> <<>>, context_length |-> 0,
     training_args |-> Unbound, revision |-> ""]

NoPrevRun ==
    [built |-> FALSE, training_args |-> Unbound, context_length |-> 0,
     lora_config |-> Unbound, bnb_config |-> Unbound, sft_config |-> Unbound]

\* One entry of calls.
Event(op, id, rev, arg, outcome) ==
    [op |-> op, model_id |-> id, revision |-> rev, arg |-> arg,
     outcome |-> outcome]

Init ==
    /\ valid_base_models = VALID_BASE_MODELS
    /\ model2template = MODEL2TEMPLATE
    /\ environ = {}
    /\ caller_args = Unbound
    /\ passed = NoPassed
    /\ status = "idle"
    /\ pc = "return"
    /\ model_id = <<>>
    /\ context_length = 0
    /\ training_args = Unbound
    /\ revision = ""
    /\ base_model = <<>>
    /\ lora_config = Unbound
    /\ bnb_config = Unbound
    /\ tokenizer = Unbound
    /\ token = ""
    /\ model = Unbound
    /\ dataset = Unbound
    /\ data_collator = Unbound
    /\ trainer = Unbound
    /\ calls = <<>>
    /\ error = NoError
    /\ prev_run = NoPrevRun

\* The statement at pc completed normally.
Advance(ev) ==
    /\ calls' = Append(calls, ev)
    /\ pc' = next_stmt(pc)
    /\ UNCHANGED <<status, error>>

\* The statement at pc raised e: train_lora is left with it.
Raise(ev, e) ==
    /\ calls' = Append(calls, ev)
    /\ status' = "raised"
    /\ error' = propagate(e)
    /\ UNCHANGED pc

At(s) == status = "running" /\ pc = s

\* train_lora(model_id, context_length, training_args, revision) is called.
Call ==
    /\ status = "idle"
    /\ \E id \in ModelIds, cl \in ContextLengths, ta \in TrainingArgs,
          rev \in Revisions, env \in Environments :
          /\ model_id' = id
          /\ context_length' = cl
          /\ training_args' = ta
          /\ caller_args' = ta
          /\ revision' = rev
          /\ environ' = env
          /\ passed' = [model_id |-> id, context_length |-> cl,
                        training_args |-> ta, revision |-> rev]
    /\ status' = "running"
    /\ pc' = Statements[1]
    /\ calls' = <<>>
    /\ error' = NoError
    /\ UNCHANGED <<globals, base_model, lora_config, bnb_config, handles,
                   prev_run>>

\* base_model = extract_base_model(model_id)
ExtractBaseModel ==
    /\ At("extract_base_model")
    /\ LET res == extract_base_model(model_id)
       IN  \/ /\ ~res.raised
              /\ base_model' = res.value
              /\ Advance(Event(pc, model_id, "", "", "ok"))
           \/ /\ res.raised
              /\ Raise(Event(pc, model_id, "", "", res.error.type), res.error)
              /\ UNCHANGED base_model
    /\ UNCHANGED <<globals, environ, caller_args, passed, params, configs,
                   handles, prev_run>>

\* validate_base_model(base_model)
ValidateBaseModel ==
    /\ At("validate_base_model")
    /\ LET e == validate_base_model(base_model, valid_base_models)
       IN  \/ /\ e.type = "None"
              /\ Advance(Event(pc, <<>>, "", "", "ok"))
           \/ /\ e.type # "None"
              /\ Raise(Event(pc, <<>>, "", "", e.type), e)
    /\ UNCHANGED <<globals, environ, caller_args, passed, params, base_model,
                   configs, handles, prev_run>>

\* assert model_id in model2template
AssertRegistered ==
    /\ At("assert")
    /\ LET e == assert_registered(model_id, model2template)
       IN  \/ /\ e.type = "None"
              /\ Advance(Event(pc, model_id, "", "", "ok"))
           \/ /\ e.type # "None"
              /\ Raise(Event(pc, model_id, "", "", e.type), e)
    /\ UNCHANGED <<globals, environ, caller_args, passed, params, base_model,
                   configs, handles, prev_run>>

\* lora_config = LoraConfig(...)
BuildLoraConfig ==
    /\ At("LoraConfig")
    /\ lora_config' = LoraConfig(training_args)
    /\ Advance(Event(pc, <<>>, "", "", "ok"))
    /\ UNCHANGED <<globals, environ, caller_args, passed, params, base_model,
                   training_args, bnb_config, handles, prev_run>>

\* bnb_config = BitsAndBytesConfig(...)
BuildBnbConfig ==
    /\ At("BitsAndBytesConfig")
    /\ bnb_config' = BitsAndBytesConfig
    /\ Advance(Event(pc, <<>>, "", "", "ok"))
    /\ UNCHANGED <<globals, environ, caller_args, passed, params, base_model,
                   training_args, lora_config, handles, prev_run>>

\* training_args = SFTConfig(...)
BuildSFTConfig ==
    /\ At("SFTConfig")
    /\ training_args' = SFTConfig(training_args, context_length)
    /\ Advance(Event(pc, <<>>, "", "", "ok"))
    /\ UNCHANGED <<globals, environ, caller_args, passed, params, base_model,
                   lora_config, bnb_config, handles, prev_run>>

\* tokenizer = AutoTokenizer.from_pretrained(model_id, use_fast=True)
LoadTokenizer ==
    /\ At("AutoTokenizer.from_pretrained")
    /\ LET rev == tokenizer_revision(revision)
       IN  \/ /\ tokenizer' = [model_id |-> model_id, revision |-> rev,
                               use_fast |-> TRUE]
              /\ Advance(Event(pc, model_id, rev, "", "ok"))
           \/ /\ \E x \in ExternalErrors :
                    Raise(Event(pc, model_id, rev, "", x),
                          external_error(x, pc))
              /\ UNCHANGED tokenizer
    /\ UNCHANGED <<globals, environ, caller_args, passed, params, base_model,
                   configs, token, model, dataset, data_collator, trainer,
                   prev_run>>

\* os.environ["HF_TOKEN"], evaluated among the arguments of the model load
\* before that call is made; a missing variable raises KeyError.
ReadToken ==
    /\ At("os.environ")
    /\ \/ /\ "HF_TOKEN" \in environ
          /\ token' = "<HF_TOKEN>"
          /\ Advance(Event(pc, <<>>, "", "HF_TOKEN", "ok"))
       \/ /\ "HF_TOKEN" \notin environ
          /\ Raise(Event(pc, <<>>, "", "HF_TOKEN", "KeyError"),
                   [type |-> "KeyError", origin |-> "train_lora",
                    message |-> <<"HF_TOKEN">>])
          /\ UNCHANGED token
    /\ UNCHANGED <<globals, environ, caller_args, passed, params, base_model,
                   configs, tokenizer, model, dataset, data_collator, trainer,
                   prev_run>>

\* model = AutoModelForCausalLM.from_pretrained(model_id, ...)
LoadModel ==
    /\ At("AutoModelForCausalLM.from_pretrained")
    /\ LET rev == model_revision(revision)
       IN  \/ /\ model' = [model_id |-> model_id, revision |-> rev,
                           quantization_config |-> bnb_config,
                           token |-> token]
              /\ Advance(Event(pc, model_id, rev, "", "ok"))
           \/ /\ \E x \in ExternalErrors :
                    Raise(Event(pc, model_id, rev, "", x),
                          external_error(x, pc))
              /\ UNCHANGED model
    /\ UNCHANGED <<globals, environ, caller_args, passed, params, base_model,
                   configs, tokenizer, token, dataset, data_collator, trainer,
                   prev_run>>

\* dataset = SFTDataset(file="demo_data.jsonl", ...)
BuildDataset ==
    /\ At("SFTDataset")
    /\ \/ /\ dataset' = [file |-> "demo_data.jsonl", tokenizer |-> tokenizer,
                         max_seq_length |-> context_length,
                         template |-> model2template[model_id]]
          /\ Advance(Event(pc, model_id, "", "demo_data.jsonl", "ok"))
       \/ /\ \E x \in ExternalErrors :
                Raise(Event(pc, model_id, "", "demo_data.jsonl", x),
                      external_error(x, pc))
          /\ UNCHANGED dataset
    /\ UNCHANGED <<globals, environ, caller_args, passed, params, base_model,
                   configs, tokenizer, token, model, data_collator, trainer,
                   prev_run>>

\* SFTDataCollator(tokenizer, max_seq_length=context_length), an argument of
\* the SFTTrainer call
BuildCollator ==
    /\ At("SFTDataCollator")
    /\ \/ /\ data_collator' = [tokenizer |-> tokenizer,
                               max_seq_length |-> context_length]
          /\ Advance(Event(pc, <<>>, "", "", "ok"))
       \/ /\ \E x \in ExternalErrors :
                Raise(Event(pc, <<>>, "", "", x), external_error(x, pc))
          /\ UNCHANGED data_collator
    /\ UNCHANGED <<globals, environ, caller_args, passed, params, base_model,
                   configs, tokenizer, token, model, dataset, trainer,
                   prev_run>>

\* trainer = SFTTrainer(model=model, train_dataset=dataset, ...)
BuildTrainer ==
    /\ At("SFTTrainer")
    /\ \/ /\ trainer' = [model |-> model, train_dataset |-> dataset,
                         args |-> training_args, peft_config |-> lora_config,
                         data_collator |-> data_collator]
          /\ Advance(Event(pc, <<>>, "", "", "ok"))
       \/ /\ \E x \in ExternalErrors :
                Raise(Event(pc, <<>>, "", "", x), external_error(x, pc))
          /\ UNCHANGED trainer
    /\ UNCHANGED <<globals, environ, caller_args, passed, params, base_model,
                   configs, tokenizer, token, model, dataset, data_collator,
                   prev_run>>

\* trainer.train()
Train ==
    /\ At("trainer.train")
    /\ \/ Advance(Event(pc, <<>>, "", "", "ok"))
       \/ \E x \in ExternalErrors :
             Raise(Event(pc, <<>>, "", "", x), external_error(x, pc))
    /\ UNCHANGED <<globals, environ, caller_args, passed, params, base_model,
                   configs, handles, prev_run>>

\* trainer.save_model("outputs")
SaveModel ==
    /\ At("trainer.save_model")
    /\ \/ Advance(Event(pc, <<>>, "", "outputs", "ok"))
       \/ \E x \in ExternalErrors :
             Raise(Event(pc, <<>>, "", "outputs", x), external_error(x, pc))
    /\ UNCHANGED <<globals, environ, caller_args, passed, params, base_model,
                   configs, handles, prev_run>>

\* os.system("rm -rf outputs/checkpoint-*"): the exit status is not looked at.
RemoveCheckpoints ==
    /\ At("os.system")
    /\ \E exit \in {"exit 0", "exit 1"} :
          Advance(Event(pc, <<>>, "", "rm -rf outputs/checkpoint-*", exit))
    /\ UNCHANGED <<globals, environ, caller_args, passed, params, base_model,
                   configs, handles, prev_run>>

\* print("Training Completed.")
PrintCompleted ==
    /\ At("print")
    /\ calls' = Append(calls, Event(pc, <<>>, "", "Training Completed.", "ok"))
    /\ pc' = next_stmt(pc)
    /\ status' = "returned"
    /\ UNCHANGED <<globals, environ, caller_args, passed, params, base_model,
                   configs, handles, error, prev_run>>

\* Whether the run that ends built its three configurations.
ConfigsBuilt == StmtIndex(pc) > StmtIndex("SFTConfig")

\* train_lora is left, normally or by an exception: its locals are gone; the
\* configurations it built are remembered for the comparison of two runs.
Return ==
    /\ status \in {"returned", "raised"}
    /\ prev_run' =
          IF ConfigsBuilt
          THEN [built |-> TRUE, training_args |-> passed.training_args,
                context_length |-> passed.context_length,
                lora_config |-> lora_config, bnb_config |-> bnb_config,
                sft_config |-> training_args]
          ELSE prev_run
    /\ status' = "idle"
    /\ pc' = "return"
    /\ model_id' = <<>>
    /\ context_length' = 0
    /\ revision' = ""
    /\ training_args' = Unbound
    /\ caller_args' = Unbound
    /\ passed' = NoPassed
    /\ environ' = {}
    /\ base_model' = <<>>
    /\ lora_config' = Unbound
    /\ bnb_config' = Unbound
    /\ tokenizer' = Unbound
    /\ token' = ""
    /\ model' = Unbound
    /\ dataset' = Unbound
    /\ data_collator' = Unbound
    /\ trainer' = Unbound
    /\ calls' = <<>>
    /\ error' = NoError
    /\ UNCHANGED globals

Next ==
    \/ Call
    \/ ExtractBaseModel
    \/ ValidateBaseModel
    \/ AssertRegistered
    \/ BuildLoraConfig
    \/ BuildBnbConfig
    \/ BuildSFTConfig
    \/ LoadTokenizer
    \/ ReadToken
    \/ LoadModel
    \/ BuildDataset
    \/ BuildCollator
    \/ BuildTrainer
    \/ Train
    \/ SaveModel
    \/ RemoveCheckpoints
    \/ PrintCompleted
    \/ Return

Spec == Init /\ [][Next]_vars

\* ------------------------------------------------------------------- claims

InRun == status # "idle"

\* Statement op has been executed (it returned or it raised).
Issued(op) == \E i \in 1..Len(calls) : calls[i].op = op

\* Statement op has been executed and returned normally.
Returned(op) ==
    \E i \in 1..Len(calls) : calls[i].op = op /\ calls[i].outcome = "ok"

LoadOps ==
    {"AutoTokenizer.from_pretrained", "AutoModelForCausalLM.from_pretrained",
     "SFTDataset"}

DownloadOps ==
    {"AutoTokenizer.from_pretrained", "AutoModelForCausalLM.from_pretrained"}

\* The calls into external dependencies that may raise.
ExternalOps ==
    LoadOps \cup {"SFTDataCollator", "SFTTrainer", "trainer.train",
                  "trainer.save_model"}

NoLoadIssued == \A i \in 1..Len(calls) : calls[i].op \notin LoadOps

AllowListSet == {VALID_BASE_MODELS[i] : i \in 1..Len(VALID_BASE_MODELS)}

HasChar(s, c) == \E i \in 1..Len(s) : s[i] = c

\* The position of the first c in s at or after position from.
FirstAt(s, c, from) ==
    CHOOSE i \in from..Len(s) : s[i] = c /\ \A j \in from..(i - 1) : s[j] # c

\* The identifier holds a '/' and a '-' somewhere after the first '/'.
SlashThenDash(id) ==
    /\ HasChar(id, "/")
    /\ \E i \in (FirstAt(id, "/", 1) + 1)..Len(id) : id[i] = "-"

\* The text between the first '/' and the first '-' that follows it.
Between(id) ==
    LET sl == FirstAt(id, "/", 1)
    IN  SubSeq(id, sl + 1, FirstAt(id, "-", sl + 1) - 1)

\* C1: no tokenizer load, model load or dataset construction is attempted
\* unless the allow-list check and the registry check have both passed, in
\* that order before the first load; a run for an identifier without a
\* registry entry never attempts a load.
C1_ChecksBeforeLoading ==
    /\ ~NoLoadIssued =>
          /\ model_id \in DOMAIN MODEL2TEMPLATE
          /\ HasChar(model_id, "/")
          /\ base_model \in AllowListSet
          /\ \E i, j, k \in 1..Len(calls) :
                /\ i < j /\ j < k
                /\ calls[i].op = "validate_base_model"
                /\ calls[i].outcome = "ok"
                /\ calls[j].op = "assert" /\ calls[j].outcome = "ok"
                /\ calls[k].op \in LoadOps
                /\ \A m \in 1..(k - 1) : calls[m].op \notin LoadOps
    /\ (InRun /\ model_id \notin DOMAIN MODEL2TEMPLATE) => NoLoadIssued
    /\ (status = "raised" /\ error.type \in {"ValueError", "AssertionError"})
          => NoLoadIssued

\* C1 witness: a run that has attempted the model load and the dataset.
C1_Witness ==
    /\ Issued("AutoModelForCausalLM.from_pretrained")
    /\ Issued("SFTDataset")

\* C2 as stated: for every identifier with a '/' and a '-' after it,
\* extract_base_model returns the lower-cased text between the first '/' and
\* the first '-' that follows it.
C2_Original ==
    (InRun /\ Issued("extract_base_model") /\ SlashThenDash(model_id))
        => /\ Returned("extract_base_model")
           /\ base_model = lower(Between(model_id))

\* C2 amended: the same, for the identifiers in which no further '/' stands
\* between the first '/' and the first '-' that follows it; "Qwen/Qwen2.5-3B"
\* yields "qwen2.5" and "Org/Foo-Bar" yields "foo".
C2_BetweenSlashAndDash ==
    /\ (/\ InRun /\ Issued("extract_base_model")
        /\ SlashThenDash(model_id)
        /\ ~HasChar(Between(model_id), "/"))
          => /\ Returned("extract_base_model")
             /\ base_model = lower(Between(model_id))
    /\ (Issued("extract_base_model") /\ model_id = Qwen25_3B)
          => base_model = <<"q", "w", "e", "n", "2", ".", "5">>
    /\ (Issued("extract_base_model") /\ model_id = OrgFooBar)
          => base_model = <<"f", "o", "o">>

\* C2 witness: "Org/Foo-Bar" has been parsed into "foo".
C2_Witness ==
    /\ model_id = OrgFooBar
    /\ Returned("extract_base_model")
    /\ base_model = <<"f", "o", "o">>

\* C3: validate_base_model raises ValueError if and only if the base-model
\* name is not in the allow-list; the error names the rejected value and
\* lists the whole allow-list; the allow-list, the registry and the caller's
\* arguments are as they were, whether it raised or returned.
C3_ValidateIffNotAllowed ==
    \A i \in 1..Len(calls) :
        calls[i].op = "validate_base_model" =>
            /\ (calls[i].outcome = "ValueError") <=> (base_model \notin AllowListSet)
            /\ (calls[i].outcome = "ok") <=> (base_model \in AllowListSet)
            /\ calls[i].outcome = "ValueError" =>
                  /\ status = "raised"
                  /\ error.type = "ValueError"
                  /\ error.message[2] = base_model
                  /\ error.message[4] = VALID_BASE_MODELS
            /\ valid_base_models = VALID_BASE_MODELS
            /\ model2template = MODEL2TEMPLATE
            /\ model_id = passed.model_id
            /\ caller_args = passed.training_args
            /\ base_model = extract_base_model(passed.model_id).value

\* C3 witness: "Org/Foo-Bar" was rejected with a ValueError.
C3_Witness ==
    /\ status = "raised"
    /\ error.type = "ValueError"
    /\ model_id = OrgFooBar

\* C4 as stated: when HF_TOKEN is absent, no tokenizer or model download
\* call is ever issued.
C4_NoDownloadWithoutToken ==
    (InRun /\ "HF_TOKEN" \notin environ)
        => \A i \in 1..Len(calls) : calls[i].op \notin DownloadOps

\* C5 as stated: the tokenizer and the model are both loaded for the
\* caller's model identifier and the caller's revision.
C5_LoadsUseIdAndRevision ==
    \A i \in 1..Len(calls) :
        calls[i].op \in DownloadOps =>
            /\ calls[i].model_id = passed.model_id
            /\ calls[i].revision = passed.revision

\* The steps C6 names, in the order it names them.
C6_Order ==
    <<"validate_base_model", "assert", "LoraConfig", "BitsAndBytesConfig",
      "SFTConfig", "AutoTokenizer.from_pretrained",
      "AutoModelForCausalLM.from_pretrained", "SFTDataset", "trainer.train",
      "trainer.save_model", "os.system", "print">>

C6_Named(e) == \E i \in 1..Len(C6_Order) : C6_Order[i] = e.op

Position(op) == CHOOSE i \in 1..Len(calls) : calls[i].op = op

\* C6: the steps of a run happen in the order validation, configuration,
\* tokenizer, model, dataset, training, save, checkpoint deletion, report;
\* a step starts only after every earlier one has returned; the deletion
\* never precedes the save; completion is reported only after training,
\* save and deletion.
C6_FixedOrder ==
    LET steps == SelectSeq(calls, C6_Named)
    IN  /\ Len(steps) <= Len(C6_Order)
        /\ \A i \in 1..Len(steps) : steps[i].op = C6_Order[i]
        /\ \A i \in 1..(Len(calls) - 1) :
              calls[i].outcome \in {"ok", "exit 0", "exit 1"}
        /\ Issued("os.system") =>
              /\ Returned("trainer.save_model")
              /\ Position("trainer.save_model") < Position("os.system")
        /\ Issued("print") =>
              /\ Returned("trainer.train")
              /\ Returned("trainer.save_model")
              /\ Issued("os.system")
              /\ Position("trainer.train") < Position("trainer.save_model")
              /\ Position("os.system") < Position("print")
        /\ status = "returned" => Issued("print")

\* C6 witness: a run that reported completion.
C6_Witness == status = "returned" /\ Issued("print")

\* C7: when a step from resource acquisition through saving raises, that
\* same error reaches the caller, the failed step ran once, and no later
\* step runs: no checkpoint deletion, no report of completion.
C7_ErrorPropagates ==
    (status = "raised" /\ StmtIndex(pc) >= StmtIndex("AutoTokenizer.from_pretrained"))
        => LET last == calls[Len(calls)]
           IN  /\ last.op = pc
               /\ error.type = last.outcome
               /\ error.type \in ExternalErrors \cup {"KeyError"}
               /\ error.type \in ExternalErrors => error = external_error(last.outcome, pc)
               /\ \A i, j \in 1..Len(calls) :
                     calls[i].op = calls[j].op => i = j
               /\ ~Issued("os.system")
               /\ ~Issued("print")
               /\ \A i \in 1..Len(calls) :
                     StmtIndex(calls[i].op) <= StmtIndex(pc)

\* C7 witness: training raised and the run ended with that error.
C7_Witness ==
    /\ status = "raised"
    /\ pc = "trainer.train"
    /\ error.type = "OutOfMemoryError"

\* C8: the configurations copy rank, scaling factor, dropout, batch size,
\* accumulation steps and epoch count from the hyperparameter record and the
\* maximum sequence length from the context length; the fixed constants are
\* the same whatever the inputs; two runs with the same record and context
\* length build the same configurations; the caller's record is unchanged.
C8_ConfigDeterministic ==
    /\ InRun => caller_args = passed.training_args
    /\ (InRun /\ ConfigsBuilt) =>
          LET h == passed.training_args
              t == training_args
          IN  /\ lora_config.r = h.lora_rank
              /\ lora_config.lora_alpha = h.lora_alpha
              /\ lora_config.lora_dropout = h.lora_dropout
              /\ lora_config.target_modules = <<"q_proj", "v_proj">>
              /\ bnb_config.load_in_4bit = TRUE
              /\ bnb_config.bnb_4bit_quant_type = "nf4"
              /\ t.per_device_train_batch_size = h.per_device_train_batch_size
              /\ t.gradient_accumulation_steps = h.gradient_accumulation_steps
              /\ t.num_train_epochs = h.num_train_epochs
              /\ t.max_seq_length = passed.context_length
              /\ t.warmup_steps = 100
              /\ t.logging_steps = 20
              /\ t.optim = "paged_adamw_8bit"
              /\ t.output_dir = "outputs"
              /\ (/\ prev_run.built
                  /\ prev_run.training_args = h
                  /\ prev_run.context_length = passed.context_length)
                    => /\ prev_run.lora_config = lora_config
                       /\ prev_run.bnb_config = bnb_config
                       /\ prev_run.sft_config = t
              /\ prev_run.built => prev_run.bnb_config = bnb_config

\* C8 witness: a second run with the inputs of the first has built its
\* configurations.
C8_Witness ==
    /\ InRun
    /\ ConfigsBuilt
    /\ prev_run.built
    /\ prev_run.training_args = passed.training_args
    /\ prev_run.context_length = passed.context_length

\* C9 as stated: a run fails either with the unsupported-model error or the
\* unmapped-model assertion, both before any loading, or with an error that
\* originates inside a call of an external dependency.
C9_Original ==
    status = "raised" =>
        \/ /\ error.type \in {"ValueError", "AssertionError"}
           /\ NoLoadIssued
        \/ /\ error.origin \in ExternalOps
           /\ error.type = calls[Len(calls)].outcome

\* C9 amended: the first-party code fails in four ways: IndexError in
\* extract_base_model for (exactly) the identifiers without '/', the
\* unsupported-model ValueError and the unmapped-model AssertionError, all
\* three before any loading; and KeyError on reading HF_TOKEN when it is not
\* set, after the tokenizer load returned and before the model load is
\* issued.  Every other failure originates inside an external call and
\* reaches the caller unmodified.
C9_ErrorKinds ==
    /\ (InRun /\ Issued("extract_base_model") /\ ~HasChar(model_id, "/"))
          => status = "raised" /\ error.type = "IndexError"
    /\ status = "raised" =>
        \/ /\ error.type = "IndexError"
           /\ error.origin = "extract_base_model"
           /\ ~HasChar(model_id, "/")
           /\ NoLoadIssued
        \/ /\ error.type = "ValueError"
           /\ error.origin = "validate_base_model"
           /\ base_model \notin AllowListSet
           /\ NoLoadIssued
        \/ /\ error.type = "AssertionError"
           /\ error.origin = "train_lora"
           /\ model_id \notin DOMAIN MODEL2TEMPLATE
           /\ NoLoadIssued
        \/ /\ error.type = "KeyError"
           /\ error.origin = "train_lora"
           /\ "HF_TOKEN" \notin environ
           /\ Returned("AutoTokenizer.from_pretrained")
           /\ ~Issued("AutoModelForCausalLM.from_pretrained")
        \/ /\ error.origin \in ExternalOps
           /\ error.origin = calls[Len(calls)].op
           /\ error.type \in ExternalErrors
           /\ error.type = calls[Len(calls)].outcome

\* C9 witness: an identifier without '/' ended the run with IndexError.
C9_Witness ==
    /\ status = "raised"
    /\ error.type = "IndexError"
    /\ model_id = NoSlashId

\* C10: every key of the registry derives to an allow-listed base-model
\* name (looked at between runs and whenever a run is at the registry
\* check), so a registered identifier is never rejected by the allow-list
\* check, and the shipped identifier passes both checks.
C10_RegistryWithinAllowList ==
    /\ (status = "idle" \/ pc = "assert") =>
          \A k \in DOMAIN model2template :
              /\ ~extract_base_model(k).raised
              /\ InList(extract_base_model(k).value, valid_base_models)
    /\ (InRun /\ model_id \in DOMAIN model2template)
          => /\ Issued("validate_base_model") => Returned("validate_base_model")
             /\ error.type \notin {"IndexError", "ValueError", "AssertionError"}
    /\ ShippedModelId \in DOMAIN model2template
    /\ (InRun /\ model_id = ShippedModelId /\ Issued("assert"))
          => Returned("validate_base_model") /\ Returned("assert")

\* C10 witness: the shipped identifier has passed both checks.
C10_Witness ==
    /\ model_id = ShippedModelId
    /\ status = "running"
    /\ pc = "LoraConfig"

====
